---- MODULE Spec2Model ----
(***************************************************************************)
(* Model of simulate.py: the analytical latency/power model of a chiplet   *)
(* package (ChipletConfig, Workload, BehavioralSimulator) and its command  *)
(* line entry point main().                                                *)
(*                                                                         *)
(* Python floats are modelled as exact decimal-scaled rationals            *)
(*     [n |-> numerator, d |-> denominator, e |-> decimal exponent]        *)
(* standing for (n / d) * 10^e, kept in a canonical form so that equal     *)
(* values are equal records.  A division by zero, which Python answers     *)
(* with ZeroDivisionError, yields the value DivErr; it propagates through  *)
(* the arithmetic of the function that performed it and makes that         *)
(* function's outcome Raise.  The rounding of IEEE doubles is not          *)
(* represented: every property below is one of the real-valued formulas.   *)
(***************************************************************************)
EXTENDS Integers, Sequences, FiniteSets, TLC

(***************************************************************************)
(* Bounds of the explored inputs.                                          *)
(***************************************************************************)
MaxDies == 2
MaxCores == 2
MaxFreq == 2

(***************************************************************************)
(* Arithmetic on decimal-scaled rationals.                                 *)
(***************************************************************************)
Abs(x) == IF x < 0 THEN -x ELSE x

Min(a, b) == IF a <= b THEN a ELSE b

RECURSIVE GCD(_, _)
GCD(a, b) == IF b = 0 THEN a ELSE GCD(b, a % b)

RECURSIVE Pow10(_)
Pow10(k) == IF k = 0 THEN 1 ELSE 10 * Pow10(k - 1)

RECURSIVE Canon(_, _, _)
Canon(n, d, e) ==
    IF d % 2 = 0 THEN Canon(n * 5, d \div 2, e - 1)
    ELSE IF d % 5 = 0 THEN Canon(n * 2, d \div 5, e - 1)
    ELSE IF n % 10 = 0 THEN Canon(n \div 10, d, e + 1)
    ELSE [n |-> n, d |-> d, e |-> e]

Norm(n, d, e) ==
    IF n = 0 THEN [n |-> 0, d |-> 1, e |-> 0]
    ELSE LET g == GCD(Abs(n), Abs(d))
             s == IF d < 0 THEN -1 ELSE 1
         IN  Canon(s * (n \div g), Abs(d) \div g, e)

DivErr == [n |-> 0, d |-> 0, e |-> 0]

IsErr(x) == x.d = 0

Dec(n, e) == Norm(n, 1, e)

I(k) == Norm(k, 1, 0)

RNeg(a) == IF IsErr(a) THEN DivErr ELSE [a EXCEPT !.n = -a.n]

RAdd(a, b) ==
    IF IsErr(a) \/ IsErr(b) THEN DivErr
    ELSE LET e == Min(a.e, b.e)
             g == GCD(a.d, b.d)
             na == a.n * Pow10(a.e - e) * (b.d \div g)
             nb == b.n * Pow10(b.e - e) * (a.d \div g)
         IN  Norm(na + nb, (a.d \div g) * b.d, e)

RSub(a, b) == RAdd(a, RNeg(b))

RMul(a, b) ==
    IF IsErr(a) \/ IsErr(b) THEN DivErr
    ELSE IF a.n = 0 \/ b.n = 0 THEN I(0)
    ELSE LET g1 == GCD(Abs(a.n), b.d)
             g2 == GCD(Abs(b.n), a.d)
         IN  Norm((a.n \div g1) * (b.n \div g2),
                  (a.d \div g2) * (b.d \div g1), a.e + b.e)

RDiv(a, b) ==
    IF IsErr(a) \/ IsErr(b) THEN DivErr
    ELSE IF b.n = 0 THEN DivErr
    ELSE IF a.n = 0 THEN I(0)
    ELSE LET g1 == GCD(Abs(a.n), Abs(b.n))
             g2 == GCD(a.d, b.d)
         IN  Norm((a.n \div g1) * (b.d \div g2),
                  (a.d \div g2) * (b.n \div g1), a.e - b.e)

RLt(a, b) == RSub(a, b).n < 0

RLe(a, b) == RSub(a, b).n <= 0

RMax(a, b) ==
    IF IsErr(a) \/ IsErr(b) THEN DivErr
    ELSE IF RLt(a, b) THEN b ELSE a

(***************************************************************************)
(* f"{x:.2f}": the value rounded to hundredths, as a count of hundredths.  *)
(* The exact value of a double is almost never a decimal tie, so on a tie  *)
(* of the modelled real either neighbour may be what Python prints.        *)
(***************************************************************************)
Fmt2(v) ==
    LET s == v.e + 2
        num == IF s >= 0 THEN v.n * Pow10(s) ELSE v.n
        den == IF s >= 0 THEN v.d ELSE v.d * Pow10(-s)
        q == num \div den
        r == num - q * den
    IN  IF 2 * r < den THEN {q}
        ELSE IF 2 * r > den THEN {q + 1}
        ELSE {q, q + 1}

(***************************************************************************)
(* The data holders.                                                       *)
(***************************************************************************)
interconnect_latency == Dec(50, -9)
interconnect_power_per_bit == Dec(2, -12)
coherence_latency == Dec(20, -9)
coherence_power_per_op == Dec(5, -2)
sync_latency == Dec(5, -6)
cpu_freq == Dec(25, -1)
npu_freq == Dec(15, -1)
cpu_dmips_per_core == 4000
npu_macs_per_core == 2048
cpu_power_per_core == Dec(30, -1)
npu_power_per_core == Dec(10, -1)
memory_power == Dec(50, -1)

ChipletConfig(cpu_dies_, cpu_cores_per_die_, npu_dies_, npu_cores_per_die_, interconnect_bw_, memory_bw_) ==
    [cpu_dies |-> cpu_dies_,
     cpu_cores_per_die |-> cpu_cores_per_die_,
     npu_dies |-> npu_dies_,
     npu_cores_per_die |-> npu_cores_per_die_,
     interconnect_bw |-> interconnect_bw_,
     interconnect_latency |-> interconnect_latency,
     interconnect_power_per_bit |-> interconnect_power_per_bit,
     memory_bw |-> memory_bw_,
     coherence_latency |-> coherence_latency,
     coherence_power_per_op |-> coherence_power_per_op,
     sync_latency |-> sync_latency,
     cpu_freq |-> cpu_freq,
     npu_freq |-> npu_freq,
     cpu_dmips_per_core |-> cpu_dmips_per_core,
     npu_macs_per_core |-> npu_macs_per_core,
     cpu_power_per_core |-> cpu_power_per_core,
     npu_power_per_core |-> npu_power_per_core,
     memory_power |-> memory_power]

Workload(cpu_flops_, npu_flops_, inference_freq_, linux_dmips_, data_size_per_inference_) ==
    [cpu_flops |-> cpu_flops_,
     npu_flops |-> npu_flops_,
     inference_freq |-> inference_freq_,
     linux_dmips |-> linux_dmips_,
     data_size_per_inference |-> data_size_per_inference_]

BehavioralSimulator(config_, workload_) ==
    [config |-> config_, workload |-> workload_]

(***************************************************************************)
(* Outcome of a call: a returned value or a raised ZeroDivisionError.      *)
(***************************************************************************)
Return(v) == [raised |-> FALSE, val |-> v]

Raise == [raised |-> TRUE, val |-> "ZeroDivisionError"]

(***************************************************************************)
(* The methods of BehavioralSimulator.                                     *)
(***************************************************************************)
calculate_interconnect_overhead(self) ==
    LET data_size_gb == self.workload.data_size_per_inference
        transfer_time ==
            RMul(RAdd(RDiv(data_size_gb, self.config.interconnect_bw),
                      self.config.interconnect_latency), I(1000))
        data_bits == RMul(data_size_gb, Dec(8, 9))
        interconnect_power ==
            RMul(RMul(data_bits, self.config.interconnect_power_per_bit),
                 self.workload.inference_freq)
        Body(transfer_time_) ==
            IF IsErr(transfer_time_) THEN Raise
            ELSE Return(<<transfer_time_, interconnect_power>>)
    IN  Body(transfer_time)

calculate_coherence_overhead_per_second(self) ==
    LET coherence_ops_per_inference == 10
        coherence_time ==
            RMul(RMul(RMul(I(coherence_ops_per_inference),
                           self.config.coherence_latency),
                      self.workload.inference_freq), I(1000))
        coherence_power ==
            RMul(RMul(I(coherence_ops_per_inference),
                      self.config.coherence_power_per_op),
                 self.workload.inference_freq)
    IN  Return(<<coherence_time, coherence_power>>)

calculate_coherence_overhead(self) ==
    LET coherence_ops_per_inference == 10
        coherence_time ==
            RMul(RMul(I(coherence_ops_per_inference),
                      self.config.coherence_latency), I(1000))
        coherence_power ==
            RMul(RMul(I(coherence_ops_per_inference),
                      self.config.coherence_power_per_op),
                 self.workload.inference_freq)
    IN  Return(<<coherence_time, coherence_power>>)

cpu_time_linux(self) ==
    LET total_cpu_cores == self.config.cpu_dies * self.config.cpu_cores_per_die
    IN  RMul(RDiv(self.workload.linux_dmips,
                  I(total_cpu_cores * self.config.cpu_dmips_per_core)),
             I(1000))

cpu_time_ai(self) ==
    LET total_cpu_cores == self.config.cpu_dies * self.config.cpu_cores_per_die
        cpu_flops_per_core == RMul(self.config.cpu_freq, Dec(1, 9))
    IN  RMul(RDiv(self.workload.cpu_flops,
                  RMul(I(total_cpu_cores), cpu_flops_per_core)),
             I(1000))

cpu_time_serialized(self) == RAdd(cpu_time_linux(self), cpu_time_ai(self))

cpu_time(self) == RMax(cpu_time_linux(self), cpu_time_ai(self))

effective_memory_bw_total_cores(self) ==
    RDiv(self.config.memory_bw,
         RAdd(I(1),
              RMul(Dec(2, -1),
                   I(self.config.cpu_dies * self.config.cpu_cores_per_die
                     + self.config.npu_dies * self.config.npu_cores_per_die))))

effective_memory_bw(self) ==
    RDiv(self.config.memory_bw,
         RAdd(I(1),
              RMul(Dec(2, -1),
                   I(self.config.cpu_cores_per_die
                     + self.config.npu_cores_per_die))))

total_time_no_overlap(cpu_time_, npu_time_, interconnect_time_, coherence_time_, sync_time_, memory_time_) ==
    RAdd(RAdd(RAdd(RAdd(RAdd(cpu_time_, npu_time_), interconnect_time_),
                   coherence_time_),
              sync_time_),
         memory_time_)

total_time(cpu_time_, npu_time_, interconnect_time_, coherence_time_, sync_time_, memory_time_) ==
    RAdd(RAdd(RAdd(RAdd(RMax(cpu_time_, npu_time_), interconnect_time_),
                   coherence_time_),
              sync_time_),
         memory_time_)

calculate_performance(self) ==
    LET total_npu_cores == self.config.npu_dies * self.config.npu_cores_per_die
        npu_flops_per_core ==
            RMul(RMul(I(self.config.npu_macs_per_core), self.config.npu_freq),
                 I(2))
        npu_time ==
            RMul(RDiv(self.workload.npu_flops,
                      RMul(I(total_npu_cores), npu_flops_per_core)),
                 I(1000))
        sync_time ==
            RMul(RMul(self.config.sync_latency, self.workload.inference_freq),
                 I(1000))
        memory_time ==
            RMul(RDiv(self.workload.data_size_per_inference,
                      effective_memory_bw(self)), I(1000))
        \* The statements in order, each on the values computed before it;
        \* the first division by zero raises.
        Body(cpu_time_, npu_time_, interconnect, coherence, sync_time_,
             memory_time_) ==
            IF IsErr(cpu_time_) \/ IsErr(npu_time_) THEN Raise
            ELSE IF interconnect.raised THEN Raise
            ELSE IF coherence.raised THEN Raise
            ELSE IF IsErr(memory_time_) THEN Raise
            ELSE Return(<<cpu_time_, npu_time_, interconnect.val[1],
                          coherence.val[1], sync_time_, memory_time_,
                          total_time(cpu_time_, npu_time_,
                                     interconnect.val[1], coherence.val[1],
                                     sync_time_, memory_time_)>>)
    IN  Body(cpu_time(self), npu_time,
             calculate_interconnect_overhead(self),
             calculate_coherence_overhead(self), sync_time, memory_time)

npu_power_cpu_cores(self) ==
    LET total_cpu_cores == self.config.cpu_dies * self.config.cpu_cores_per_die
    IN  RMul(I(total_cpu_cores), self.config.npu_power_per_core)

npu_power(self) ==
    LET total_npu_cores == self.config.npu_dies * self.config.npu_cores_per_die
    IN  RMul(I(total_npu_cores), self.config.npu_power_per_core)

total_power_without_memory(cpu_power_, npu_power_, interconnect_power_, coherence_power_, memory_power_) ==
    RAdd(RAdd(RAdd(cpu_power_, npu_power_), interconnect_power_),
         coherence_power_)

total_power(cpu_power_, npu_power_, interconnect_power_, coherence_power_, memory_power_) ==
    RAdd(RAdd(RAdd(RAdd(cpu_power_, npu_power_), interconnect_power_),
              coherence_power_),
         memory_power_)

calculate_power(self) ==
    LET total_cpu_cores == self.config.cpu_dies * self.config.cpu_cores_per_die
        cpu_power == RMul(I(total_cpu_cores), self.config.cpu_power_per_core)
        Body(interconnect, coherence) ==
            IF interconnect.raised THEN Raise
            ELSE IF coherence.raised THEN Raise
            ELSE Return(total_power(cpu_power, npu_power(self),
                                    interconnect.val[2], coherence.val[2],
                                    self.config.memory_power))
    IN  Body(calculate_interconnect_overhead(self),
             calculate_coherence_overhead(self))

run(self) ==
    LET Body(perf, power) ==
            IF perf.raised THEN Raise
            ELSE IF power.raised THEN Raise
            ELSE Return([cpu_dies |-> self.config.cpu_dies,
                         cpu_cores_per_die |-> self.config.cpu_cores_per_die,
                         npu_dies |-> self.config.npu_dies,
                         npu_cores_per_die |-> self.config.npu_cores_per_die,
                         cpu_time_ms |-> perf.val[1],
                         npu_time_ms |-> perf.val[2],
                         interconnect_time_ms |-> perf.val[3],
                         coherence_time_ms |-> perf.val[4],
                         sync_time_ms |-> perf.val[5],
                         memory_time_ms |-> perf.val[6],
                         total_time_ms |-> perf.val[7],
                         total_power_w |-> power.val])
    IN  Body(calculate_performance(self), calculate_power(self))

(***************************************************************************)
(* main(): the table it prints for a Result.  A table is its header row    *)
(* and its data rows; the eight float cells are formatted with two         *)
(* decimals.                                                               *)
(***************************************************************************)
headers ==
    <<"CPU Dies", "CPU Cores/Die", "NPU Dies", "NPU Cores/Die",
      "CPU Time (ms)", "NPU Time (ms)", "Interconnect (ms)", "Coherence (ms)",
      "Sync (ms)", "Memory (ms)", "Total Time (ms)", "Power (W)">>

DataRows(result) ==
    {<<result.cpu_dies, result.cpu_cores_per_die, result.npu_dies,
       result.npu_cores_per_die, c1, c2, c3, c4, c5, c6, c7, c8>> :
        c1 \in Fmt2(result.cpu_time_ms),
        c2 \in Fmt2(result.npu_time_ms),
        c3 \in Fmt2(result.interconnect_time_ms),
        c4 \in Fmt2(result.coherence_time_ms),
        c5 \in Fmt2(result.sync_time_ms),
        c6 \in Fmt2(result.memory_time_ms),
        c7 \in Fmt2(result.total_time_ms),
        c8 \in Fmt2(result.total_power_w)}

(***************************************************************************)
(* Inputs: the parsed command line.  Die and core counts are ints, the     *)
(* rest are floats.  Every config is a valid one, or a valid one at the    *)
(* ends of the ranges with one argument replaced by a zero or negative     *)
(* value.                                                                  *)
(***************************************************************************)
ValidArgs ==
    [cpu_dies : 1..MaxDies, cpu_cores : 1..MaxCores,
     npu_dies : 1..MaxDies, npu_cores : 1..MaxCores,
     interconnect_bw : {I(64)}, memory_bw : {I(100)}]

InvalidChoices ==
    {<<f, k>> : f \in {"cpu_dies", "cpu_cores", "npu_dies", "npu_cores"},
                k \in {-1, 0}}
    \cup {<<"interconnect_bw", I(0)>>, <<"interconnect_bw", I(-64)>>,
          <<"memory_bw", I(0)>>, <<"memory_bw", I(-100)>>}

EndArgs ==
    [cpu_dies : {1, MaxDies}, cpu_cores : {1, MaxCores},
     npu_dies : {1, MaxDies}, npu_cores : {1, MaxCores},
     interconnect_bw : {I(64)}, memory_bw : {I(100)}]

ConfigArgs ==
    ValidArgs \cup {[a EXCEPT ![c[1]] = c[2]] : a \in EndArgs,
                                                c \in InvalidChoices}

WorkloadArgs ==
    [cpu_flops : {I(0), Dec(1, 9)},
     npu_flops : {I(0), I(6144)},
     inference_freq : {I(k) : k \in 1..MaxFreq},
     linux_dmips : {I(0), I(2000)},
     data_size : {I(0), Dec(1, -2)}]

NoCall == [op |-> "none", raised |-> FALSE, val |-> "None"]

Outcome(op, r) == [op |-> op, raised |-> r.raised, val |-> r.val]

(***************************************************************************)
(* State: the simulator built from the arguments, the outcome of the last  *)
(* call made on it, and what the process has printed.  A process either    *)
(* runs main(), once, or uses the simulator as a library and calls its     *)
(* methods in any order, any number of times.                              *)
(***************************************************************************)
VARIABLES simulator, ret, stdout

vars == <<simulator, ret, stdout>>

Init ==
    /\ \E a \in ConfigArgs, w \in WorkloadArgs :
          simulator =
              BehavioralSimulator(
                  ChipletConfig(a.cpu_dies, a.cpu_cores, a.npu_dies,
                                a.npu_cores, a.interconnect_bw, a.memory_bw),
                  Workload(w.cpu_flops, w.npu_flops, w.inference_freq,
                           w.linux_dmips, w.data_size))
    /\ ret = NoCall
    /\ stdout = <<>>

CallInterconnectOverhead ==
    /\ ret.op # "main"
    /\ ret' = Outcome("calculate_interconnect_overhead",
                      calculate_interconnect_overhead(simulator))
    /\ UNCHANGED <<simulator, stdout>>

CallCoherenceOverhead ==
    /\ ret.op # "main"
    /\ ret' = Outcome("calculate_coherence_overhead",
                      calculate_coherence_overhead(simulator))
    /\ UNCHANGED <<simulator, stdout>>

CallPerformance ==
    /\ ret.op # "main"
    /\ ret' = Outcome("calculate_performance",
                      calculate_performance(simulator))
    /\ UNCHANGED <<simulator, stdout>>

CallPower ==
    /\ ret.op # "main"
    /\ ret' = Outcome("calculate_power", calculate_power(simulator))
    /\ UNCHANGED <<simulator, stdout>>

CallRun_consuming ==
    /\ ret.op # "main"
    /\ ret' = Outcome("run", run(simulator))
    /\ simulator' = [simulator EXCEPT !.workload.npu_flops = I(0)]
    /\ UNCHANGED stdout

CallRun ==
    /\ ret.op # "main"
    /\ ret' = Outcome("run", run(simulator))
    /\ UNCHANGED <<simulator, stdout>>

main_header_first ==
    /\ ret.op = "none"
    /\ \E result \in {run(simulator)} :
           IF result.raised
           THEN /\ ret' = Outcome("main", Raise)
                /\ stdout' = Append(stdout,
                                    [headers |-> headers, data |-> <<>>])
           ELSE /\ ret' = Outcome("main", Return("None"))
                /\ \E row \in DataRows(result.val) :
                      stdout' = Append(stdout,
                                       [headers |-> headers, data |-> <<row>>])
    /\ UNCHANGED simulator

main ==
    /\ ret.op = "none"
    /\ \E result \in {run(simulator)} :
           IF result.raised
           THEN /\ ret' = Outcome("main", Raise)
                /\ stdout' = stdout
           ELSE /\ ret' = Outcome("main", Return("None"))
                /\ \E row \in DataRows(result.val) :
                      stdout' = Append(stdout,
                                       [headers |-> headers, data |-> <<row>>])
    /\ UNCHANGED simulator

Next ==
    \/ CallInterconnectOverhead
    \/ CallCoherenceOverhead
    \/ CallPerformance
    \/ CallPower
    \/ CallRun
    \/ main

Spec == Init /\ [][Next]_vars

(***************************************************************************)
(* Properties.                                                             *)
(***************************************************************************)
Returned(ops) == ret.op \in ops /\ ~ret.raised

PositiveConfig ==
    /\ simulator.config.cpu_dies > 0
    /\ simulator.config.cpu_cores_per_die > 0
    /\ simulator.config.npu_dies > 0
    /\ simulator.config.npu_cores_per_die > 0
    /\ RLt(I(0), simulator.config.interconnect_bw)
    /\ RLt(I(0), simulator.config.memory_bw)

\* The seven times of the last calculate_performance() or run().
Times ==
    IF ret.op = "run"
    THEN <<ret.val.cpu_time_ms, ret.val.npu_time_ms,
           ret.val.interconnect_time_ms, ret.val.coherence_time_ms,
           ret.val.sync_time_ms, ret.val.memory_time_ms,
           ret.val.total_time_ms>>
    ELSE ret.val

\* The total power of the last calculate_power() or run().
Power == IF ret.op = "run" THEN ret.val.total_power_w ELSE ret.val

WithConfig(field, v) == [simulator EXCEPT !.config[field] = v]

WithFreq(f) == [simulator EXCEPT !.workload.inference_freq = f]

\* C1: whenever calculate_performance() or run() returns, as they do for
\* every positive configuration, the total time is max(cpu, npu) plus the
\* interconnect, coherence, sync and memory times returned with it; so, when
\* no stage time is negative, the total is at least the max term and at
\* least the sum of the four overheads.
Thm_C1_TotalTime ==
    /\ (PositiveConfig /\ ret.op \in {"calculate_performance", "run"})
           => ~ret.raised
    /\ Returned({"calculate_performance", "run"}) =>
        LET t == Times
            overheads == RAdd(RAdd(RAdd(t[3], t[4]), t[5]), t[6])
        IN  /\ t[7] = RAdd(RMax(t[1], t[2]), overheads)
            /\ (\A i \in 1..6 : RLe(I(0), t[i])) =>
                   /\ RLe(RMax(t[1], t[2]), t[7])
                   /\ RLe(overheads, t[7])

Wit_C1_TotalTime ==
    /\ Returned({"run"})
    /\ PositiveConfig
    /\ RLt(I(0), ret.val.cpu_time_ms)
    /\ RLt(ret.val.cpu_time_ms, ret.val.npu_time_ms)
    /\ RLt(I(0), ret.val.memory_time_ms)
    /\ RLt(ret.val.npu_time_ms, ret.val.total_time_ms)

\* C2: the NPU time is npu_flops / (total NPU cores * 2048 * 1.5e9 * 2)
\* * 1000, the NPU frequency being taken in hertz.
Cex_C2_NpuTimeInHertz ==
    (Returned({"calculate_performance", "run"}) /\ PositiveConfig) =>
        LET total_npu_cores ==
                simulator.config.npu_dies * simulator.config.npu_cores_per_die
            npu_flops_per_core_per_sec ==
                RMul(RMul(I(2048), Dec(15, 8)), I(2))
        IN  Times[2] =
                RMul(RDiv(simulator.workload.npu_flops,
                          RMul(I(total_npu_cores),
                               npu_flops_per_core_per_sec)),
                     I(1000))

\* C3: with a zero or negative die count, core count or bandwidth, run()
\* and main() end in an error; they never return or print a Result.
Cex_C3_RejectsNonPositive ==
    (ret.op \in {"run", "main"} /\ ~PositiveConfig) => ret.raised

\* C4: the total power returned by calculate_power() and run() is the sum
\* of the five terms CPU cores * 3.0, NPU cores * 1.0, interconnect power,
\* coherence power and 5.0, where the interconnect power is data_size * 8e9
\* * 2e-12 * inference_freq and the coherence power is 10 * 0.05 *
\* inference_freq, the powers the two estimators return.
Thm_C4_TotalPower ==
    LET c == simulator.config
        w == simulator.workload
        interconnect_power ==
            RMul(RMul(RMul(w.data_size_per_inference, Dec(8, 9)),
                      Dec(2, -12)),
                 w.inference_freq)
        coherence_power == RMul(RMul(I(10), Dec(5, -2)), w.inference_freq)
    IN  /\ (Returned({"calculate_power", "run"}) /\ PositiveConfig) =>
               Power = RAdd(RAdd(RAdd(RAdd(
                            RMul(I(c.cpu_dies * c.cpu_cores_per_die),
                                 Dec(3, 0)),
                            RMul(I(c.npu_dies * c.npu_cores_per_die),
                                 Dec(1, 0))),
                            interconnect_power),
                            coherence_power),
                            Dec(5, 0))
        /\ (Returned({"calculate_interconnect_overhead"}) /\ PositiveConfig)
               => ret.val[2] = interconnect_power
        /\ (Returned({"calculate_coherence_overhead"}) /\ PositiveConfig)
               => ret.val[2] = coherence_power

Wit_C4_TotalPower ==
    /\ Returned({"calculate_power"})
    /\ PositiveConfig
    /\ RLt(I(0), simulator.workload.data_size_per_inference)
    /\ RLt(Dec(5, 0), ret.val)

\* C5: the CPU time is the maximum, not the sum, of the Linux term
\* linux_dmips / (CPU cores * 4000) * 1000 and the AI term
\* cpu_flops / (CPU cores * 2.5e9) * 1000, and doubling cpu_dies halves
\* both terms (and so the CPU time).
Thm_C5_CpuTimeMax ==
    (Returned({"calculate_performance", "run"}) /\ PositiveConfig) =>
        LET c == simulator.config
            w == simulator.workload
            total_cpu_cores == c.cpu_dies * c.cpu_cores_per_die
            linux_ms ==
                RMul(RDiv(w.linux_dmips, I(total_cpu_cores * 4000)), I(1000))
            ai_ms ==
                RMul(RDiv(w.cpu_flops, RMul(I(total_cpu_cores), Dec(25, 8))),
                     I(1000))
            doubled == WithConfig("cpu_dies", 2 * c.cpu_dies)
        IN  /\ Times[1] = RMax(linux_ms, ai_ms)
            /\ RMul(I(2), cpu_time_linux(doubled)) = linux_ms
            /\ RMul(I(2), cpu_time_ai(doubled)) = ai_ms
            /\ RMul(I(2), calculate_performance(doubled).val[1]) = Times[1]

Wit_C5_CpuTimeMax ==
    /\ Returned({"calculate_performance"})
    /\ PositiveConfig
    /\ RLt(I(0), simulator.workload.cpu_flops)
    /\ RLt(I(0), simulator.workload.linux_dmips)
    /\ RLt(I(0), ret.val[1])

TwelveFields ==
    {"cpu_dies", "cpu_cores_per_die", "npu_dies", "npu_cores_per_die",
     "cpu_time_ms", "npu_time_ms", "interconnect_time_ms",
     "coherence_time_ms", "sync_time_ms", "memory_time_ms", "total_time_ms",
     "total_power_w"}

\* C6: a run() either returns a Result with all twelve fields or raises and
\* returns nothing; a main() either prints exactly one table, of twelve
\* headers and one row of twelve cells, or fails having printed nothing.
Thm_C6_AllOrNothing ==
    /\ ret.op = "run" =>
          IF ret.raised THEN ret.val = "ZeroDivisionError"
          ELSE DOMAIN ret.val = TwelveFields
    /\ ret.op = "main" =>
          IF ret.raised THEN stdout = <<>>
          ELSE /\ Len(stdout) = 1
               /\ Len(stdout[1].headers) = 12
               /\ Len(stdout[1].data) = 1
               /\ Len(stdout[1].data[1]) = 12
    /\ ret.op # "main" => stdout = <<>>

Wit_C6_AllOrNothing == ret.op = "main" /\ ret.raised /\ stdout = <<>>

\* C7: the memory time is data_size / (memory_bw / (1 + 0.2 * (CPU cores
\* per die + NPU cores per die))) * 1000 and is the same for every valid
\* configuration that differs only in cpu_dies and npu_dies; with a zero
\* data size the memory time is 0 and the interconnect time is exactly
\* interconnect_latency * 1000.
Thm_C7_MemoryTime ==
    LET c == simulator.config
        w == simulator.workload
    IN  /\ (Returned({"calculate_performance", "run"}) /\ PositiveConfig) =>
              /\ Times[6] =
                     RMul(RDiv(w.data_size_per_inference,
                               RDiv(c.memory_bw,
                                    RAdd(I(1),
                                         RMul(Dec(2, -1),
                                              I(c.cpu_cores_per_die
                                                + c.npu_cores_per_die))))),
                          I(1000))
              /\ \A cd \in 1..(MaxDies + 1), nd \in 1..(MaxDies + 1) :
                     \A other \in {calculate_performance(
                                       [simulator EXCEPT
                                            !.config.cpu_dies = cd,
                                            !.config.npu_dies = nd])} :
                         ~other.raised /\ other.val[6] = Times[6]
              /\ w.data_size_per_inference = I(0) =>
                     /\ Times[6] = I(0)
                     /\ Times[3] = RMul(Dec(50, -9), I(1000))
        /\ (Returned({"calculate_interconnect_overhead"}) /\ PositiveConfig
            /\ w.data_size_per_inference = I(0)) =>
              ret.val[1] = RMul(Dec(50, -9), I(1000))

Wit_C7_MemoryTime ==
    /\ Returned({"run"})
    /\ PositiveConfig
    /\ simulator.config.cpu_dies = 2
    /\ simulator.config.npu_dies = 2
    /\ RLt(I(0), ret.val.memory_time_ms)

\* C8: the coherence time is 10 * coherence_latency * 1000 whatever the
\* inference frequency, and the coherence power is 10 * 0.05 *
\* inference_freq: k times the frequency gives k times the power and the
\* same time.
Thm_C8_CoherenceAsymmetry ==
    LET time_ms == RMul(RMul(I(10), Dec(20, -9)), I(1000))
    IN  /\ Returned({"calculate_coherence_overhead"}) =>
              /\ ret.val[1] = time_ms
              /\ ret.val[2] =
                     RMul(RMul(I(10), Dec(5, -2)),
                          simulator.workload.inference_freq)
              /\ \A k \in 1..(MaxFreq + 1) :
                     LET scaled ==
                             WithFreq(RMul(I(k),
                                           simulator.workload.inference_freq))
                         other == calculate_coherence_overhead(scaled)
                     IN  /\ other.val[1] = ret.val[1]
                         /\ other.val[2] = RMul(I(k), ret.val[2])
        /\ Returned({"calculate_performance", "run"}) => Times[4] = time_ms

Wit_C8_CoherenceAsymmetry ==
    /\ Returned({"calculate_coherence_overhead"})
    /\ simulator.workload.inference_freq = I(2)
    /\ ret.val[2] = I(1)

Thm_C10_PureEvaluation ==
    /\ [][/\ simulator' = simulator
          /\ (ret.op = "run" /\ ret'.op = "run") => ret' = ret]_vars
    /\ [](Returned({"run"}) =>
              /\ ret.val.cpu_dies = simulator.config.cpu_dies
              /\ ret.val.cpu_cores_per_die =
                     simulator.config.cpu_cores_per_die
              /\ ret.val.npu_dies = simulator.config.npu_dies
              /\ ret.val.npu_cores_per_die =
                     simulator.config.npu_cores_per_die)

Wit_C10_PureEvaluation ==
    /\ Returned({"run"})
    /\ ret.val.cpu_dies = 2
    /\ ret.val.npu_cores_per_die = 2
    /\ RLt(I(0), simulator.workload.npu_flops)

====
